---- MODULE Spec2Model ----
(***************************************************************************)
(* Model of the skin advantage calculator (App component) and of the       *)
(* useLocalStorage hook.                                                   *)
(*                                                                         *)
(* Texts (the strings held by the form and by localStorage) are sequences  *)
(* of one-character strings.  Numbers are JavaScript numbers with exact    *)
(* rational arithmetic in place of binary64 rounding: a number is a record *)
(* [k, n, d] with k = "fin" (the rational n/d in lowest terms, d > 0),     *)
(* k = "inf" (n = 1 for +Infinity, n = -1 for -Infinity) or k = "nan".     *)
(* Negative zero is not distinguished from zero.                           *)
(***************************************************************************)
EXTENDS Integers, Sequences, FiniteSets, TLC

(***************************************************************************)
(* JavaScript numbers                                                      *)
(***************************************************************************)
Abs(i) == IF i < 0 THEN -i ELSE i

RECURSIVE GCD(_, _)
GCD(a, b) == IF b = 0 THEN a ELSE GCD(b, a % b)

NaN == [k |-> "nan", n |-> 0, d |-> 1]

PosInf == [k |-> "inf", n |-> 1, d |-> 1]

NegInf == [k |-> "inf", n |-> -1, d |-> 1]

\* The rational n/d (d # 0) in lowest terms with a positive denominator.
Fin(n, d) ==
    LET g == GCD(Abs(n), Abs(d))
        s == IF d < 0 THEN -1 ELSE 1
    IN  [k |-> "fin", n |-> (s * n) \div g, d |-> Abs(d) \div g]

Num(i) == Fin(i, 1)

IsNaN(x) == x.k = "nan"

\* Number.isFinite
IsFinite(x) == x.k = "fin"

\* -1, 0 or 1; not used on NaN.
Sign(x) == IF x.n < 0 THEN -1 ELSE IF x.n > 0 THEN 1 ELSE 0

Inf(s) == IF s < 0 THEN NegInf ELSE PosInf

Neg(x) == [x EXCEPT !.n = -x.n]

Add(x, y) ==
    IF IsNaN(x) \/ IsNaN(y) THEN NaN
    ELSE IF x.k = "inf" /\ y.k = "inf" THEN (IF x.n = y.n THEN x ELSE NaN)
    ELSE IF x.k = "inf" THEN x
    ELSE IF y.k = "inf" THEN y
    ELSE Fin(x.n * y.d + y.n * x.d, x.d * y.d)

Sub(x, y) == Add(x, Neg(y))

Mul(x, y) ==
    IF IsNaN(x) \/ IsNaN(y) THEN NaN
    ELSE IF x.k = "inf" \/ y.k = "inf"
         THEN (IF Sign(x) = 0 \/ Sign(y) = 0 THEN NaN ELSE Inf(Sign(x) * Sign(y)))
    ELSE Fin(x.n * y.n, x.d * y.d)

Div(x, y) ==
    IF IsNaN(x) \/ IsNaN(y) THEN NaN
    ELSE IF x.k = "inf" /\ y.k = "inf" THEN NaN
    ELSE IF x.k = "inf" THEN Inf(x.n * (IF Sign(y) < 0 THEN -1 ELSE 1))
    ELSE IF y.k = "inf" THEN Num(0)
    ELSE IF y.n = 0 THEN (IF x.n = 0 THEN NaN ELSE Inf(Sign(x)))
    ELSE Fin(x.n * y.d, x.d * y.n)

\* x < y; false as soon as one side is NaN.
Lt(x, y) ==
    /\ ~IsNaN(x)
    /\ ~IsNaN(y)
    /\ IF x.k = "inf" THEN x.n < 0 /\ y # x
       ELSE IF y.k = "inf" THEN y.n > 0
       ELSE x.n * y.d < y.n * x.d

\* x <= y; false as soon as one side is NaN.
Le(x, y) == ~IsNaN(x) /\ ~IsNaN(y) /\ (x = y \/ Lt(x, y))

Gt(x, y) == Lt(y, x)

Ge(x, y) == Le(y, x)

\* Math.max and Math.min of two arguments.
MathMax(x, y) == IF IsNaN(x) \/ IsNaN(y) THEN NaN ELSE IF Lt(x, y) THEN y ELSE x

MathMin(x, y) == IF IsNaN(x) \/ IsNaN(y) THEN NaN ELSE IF Lt(y, x) THEN y ELSE x

RECURSIVE IntPow(_, _)
IntPow(b, e) == IF e = 0 THEN 1 ELSE b * IntPow(b, e - 1)

\* Math.pow for a finite base >= 0 and an integral exponent, the only cases
\* the texts of this model produce; a NaN exponent gives NaN, exponent 0
\* gives 1 whatever the base.
MathPow(b, e) ==
    IF IsNaN(e) THEN NaN
    ELSE IF e.k = "fin" /\ e.n = 0 THEN Num(1)
    ELSE IF IsNaN(b) THEN NaN
    ELSE CASE b.k = "fin" /\ b.n >= 0 /\ e.k = "fin" /\ e.d = 1 /\ e.n > 0 ->
                Fin(IntPow(b.n, e.n), IntPow(b.d, e.n))
           [] b.k = "fin" /\ b.n > 0 /\ e.k = "fin" /\ e.d = 1 /\ e.n < 0 ->
                Fin(IntPow(b.d, -e.n), IntPow(b.n, -e.n))
           [] b.k = "fin" /\ b.n = 0 /\ e.k = "fin" /\ e.n < 0 -> PosInf

\* ToBoolean of a number, as the || operator applies it.
Truthy(x) == ~IsNaN(x) /\ x # Num(0)

\* x || dflt
OrElse(x, dflt) == IF Truthy(x) THEN x ELSE dflt

(***************************************************************************)
(* parseFloat: optional sign, digits, optional fraction; the longest such  *)
(* prefix is converted, what follows is ignored, and a text with no digit  *)
(* there converts to NaN.  (Exponents and leading blanks do not occur in   *)
(* the texts of this model.)                                               *)
(***************************************************************************)
Digits == <<"0", "1", "2", "3", "4", "5", "6", "7", "8", "9">>

IsDigit(c) == \E i \in 1..10 : Digits[i] = c

DigitVal(c) == (CHOOSE i \in 1..10 : Digits[i] = c) - 1

\* The first index >= i of t that holds no digit (Len(t) + 1 if none).
RECURSIVE ScanDigits(_, _)
ScanDigits(t, i) ==
    IF i <= Len(t) /\ IsDigit(t[i]) THEN ScanDigits(t, i + 1) ELSE i

\* The value of the digits t[i .. j-1], 0 when there are none.
RECURSIVE DigitsVal(_, _, _)
DigitsVal(t, i, j) ==
    IF j <= i THEN 0 ELSE 10 * DigitsVal(t, i, j - 1) + DigitVal(t[j - 1])

parseFloat(t) ==
    LET signed  == Len(t) >= 1 /\ t[1] \in {"+", "-"}
        sgn     == IF Len(t) >= 1 /\ t[1] = "-" THEN -1 ELSE 1
        start   == IF signed THEN 2 ELSE 1
        intEnd  == ScanDigits(t, start)
        hasDot  == intEnd <= Len(t) /\ t[intEnd] = "."
        fracEnd == IF hasDot THEN ScanDigits(t, intEnd + 1) ELSE intEnd
        nFrac   == IF hasDot THEN fracEnd - (intEnd + 1) ELSE 0
        whole   == DigitsVal(t, start, intEnd)
        frac    == IF hasDot THEN DigitsVal(t, intEnd + 1, fracEnd) ELSE 0
    IN  IF intEnd = start /\ nFrac = 0 THEN NaN
        ELSE Fin(sgn * (whole * IntPow(10, nFrac) + frac), IntPow(10, nFrac))

(***************************************************************************)
(* Utilities of the App module                                             *)
(***************************************************************************)
\* clamp without its lower bound.
clampNoLower(x, a, b) == MathMin(b, x)

clamp(x, a, b) == MathMax(a, MathMin(b, x))

\* interpret with the first threshold inclusive.
interpretInclusive(s) ==
    IF Ge(s, Fin(40, 100)) THEN "Compra forte"
    ELSE IF Gt(s, Fin(15, 100)) THEN "Considerar"
    ELSE IF Ge(s, Fin(-15, 100)) THEN "Neutro"
    ELSE "Evitar"

interpret(s) ==
    IF Gt(s, Fin(40, 100)) THEN "Compra forte"
    ELSE IF Gt(s, Fin(15, 100)) THEN "Considerar"
    ELSE IF Ge(s, Fin(-15, 100)) THEN "Neutro"
    ELSE "Evitar"

(***************************************************************************)
(* State.  formState, result and history are the three useState cells of   *)
(* App.  alerts holds the messages the last handler passed to alert(),     *)
(* lastAction names the last handler that ran, and edits counts the input  *)
(* events so far.  score and label are the argument and the value of       *)
(* interpret as a function on its own.  The remaining variables belong to  *)
(* a component that uses useLocalStorage.                                  *)
(***************************************************************************)
VARIABLES formState, result, history, alerts, lastAction, edits,
          score, label,
          phase, storedValue, store, effectPending, envFail, thrown, logged

appVars == <<formState, result, history, alerts, lastAction, edits>>

interpVars == <<score, label>>

hookVars ==
    <<phase, storedValue, store, effectPending, envFail, thrown, logged>>

vars == <<appVars, interpVars, hookVars>>

(***************************************************************************)
(* Texts                                                                   *)
(***************************************************************************)
Empty == <<>>

T0 == <<"0">>

T1 == <<"1">>

T2 == <<"2">>

TNeg1 == <<"-", "1">>

T50 == <<"5", "0">>

T400 == <<"4", "0", "0">>

T500 == <<"5", "0", "0">>

T1200 == <<"1", "2", "0", "0">>

T0p1 == <<"0", ".", "1">>

T0p12 == <<"0", ".", "1", "2">>

T0p3 == <<"0", ".", "3">>

T0p5 == <<"0", ".", "5">>

T0p7 == <<"0", ".", "7">>

T1p5 == <<"1", ".", "5">>

TName == <<"A", "K">>

\* The placeholder name: the one character U+2014 (em dash).
Dash == <<"U+2014">>

initialFormState ==
    [pm |-> T500, pa |-> T400, fee |-> T0, float |-> T0p12, wp |-> T0p7,
     wf |-> T0p3, alpha |-> T1, cap |-> T1, r |-> T1, liq |-> T1,
     name |-> Empty]

FieldNames ==
    {"pm", "pa", "fee", "float", "wp", "wf", "alpha", "cap", "r", "liq", "name"}

Null == [isNull |-> TRUE]

MsgFloat == "Float deve estar entre 0.00 e 1.00"

\* (the message is spelled here without its diacritics)
MsgPm == "Preco medio deve ser maior que 0"

MsgWeights == "Soma dos pesos deve ser maior que 0"

(***************************************************************************)
(* calculate, on the form of the current render.  Its value is the pair    *)
(* of what it returns (res, Null for null) and of the messages it alerts.  *)
(***************************************************************************)
\* The validations with the average cost checked before the float.
ValidatePmFirst(f, Pm, wp, wf) ==
    IF Le(Pm, Num(0)) THEN <<MsgPm>>
    ELSE IF ~(Ge(f, Num(0)) /\ Le(f, Num(1))) THEN <<MsgFloat>>
    ELSE IF Le(Add(wp, wf), Num(0)) THEN <<MsgWeights>>
    ELSE <<>>

\* The three validations, in their order: the messages alerted before the
\* early return, none when all pass.
Validate(f, Pm, wp, wf) ==
    IF ~(Ge(f, Num(0)) /\ Le(f, Num(1))) THEN <<MsgFloat>>
    ELSE IF Le(Pm, Num(0)) THEN <<MsgPm>>
    ELSE IF Le(Add(wp, wf), Num(0)) THEN <<MsgWeights>>
    ELSE <<>>

\* The weighted sum, not divided by the sum of the weights.
RawScoreUndivided(wp, wf, Dc, Q) == Add(Mul(wp, Dc), Mul(wf, Q))

RawScore(wp, wf, Dc, Q) == Div(Add(Mul(wp, Dc), Mul(wf, Q)), Add(wp, wf))

\* The liquidity factor with the default of the other optional fields.
LiquidityFactorZero(L) == IF IsFinite(L) THEN clamp(L, Num(0), Num(1)) ELSE Num(0)

LiquidityFactor(L) == IF IsFinite(L) THEN clamp(L, Num(0), Num(1)) ELSE Num(1)

calculate(form) ==
    LET Pm    == OrElse(parseFloat(form.pm), Num(0))
        Pa    == OrElse(parseFloat(form.pa), Num(0))
        fee   == OrElse(parseFloat(form.fee), Num(0))
        f     == parseFloat(form.float)
        wp    == OrElse(parseFloat(form.wp), Num(0))
        wf    == OrElse(parseFloat(form.wf), Num(0))
        alpha == OrElse(parseFloat(form.alpha), Num(1))
        cap   == OrElse(parseFloat(form.cap), Num(1))
        r     == OrElse(parseFloat(form.r), Num(1))
        L     == parseFloat(form.liq)
        failed == Validate(f, Pm, wp, wf)
        PaAdj == Add(Pa, fee)
        D     == Div(Sub(Pm, PaAdj), Pm)
        Dc    == clamp(D, Neg(cap), cap)
        Q     == MathPow(Sub(Num(1), f), alpha)
        S     == RawScore(wp, wf, Dc, Q)
        Liqu  == LiquidityFactor(L)
        Sfinal == Mul(Mul(S, r), Liqu)
    IN  IF failed # <<>>
        THEN [res |-> Null, alerts |-> failed]
        ELSE [res |-> [Pm |-> Pm, PaAdj |-> PaAdj, D |-> D, Dc |-> Dc,
                       Q |-> Q, S |-> S, Sfinal |-> Sfinal],
              alerts |-> <<>>]

\* The history item without the placeholder name.
NewItemRawName(res, id, form) ==
    [Pm |-> res.Pm, PaAdj |-> res.PaAdj, D |-> res.D, Dc |-> res.Dc,
     Q |-> res.Q, S |-> res.S, Sfinal |-> res.Sfinal,
     id |-> id,
     name |-> form.name,
     floatValue |-> form.float]

\* The history item handleAddHistory builds from a result.
NewItem(res, id, form) ==
    [Pm |-> res.Pm, PaAdj |-> res.PaAdj, D |-> res.D, Dc |-> res.Dc,
     Q |-> res.Q, S |-> res.S, Sfinal |-> res.Sfinal,
     id |-> id,
     name |-> IF form.name # Empty THEN form.name ELSE Dash,
     floatValue |-> form.float]

\* The new item put last.
AppendLast(item, prev) == prev \o <<item>>

\* setHistory's updater: the new item goes first.
Prepend(item, prev) == <<item>> \o prev

(***************************************************************************)
(* Bounds and input sets                                                   *)
(***************************************************************************)
\* Input events in one run.
MaxEdits == 3

\* Items the history may hold before handleAddHistory is no longer taken.
MaxHistory == 2

\* The identifiers `${new Date().toISOString()}-${Math.random()}` may yield;
\* nothing in the code makes two of them differ.
Ids == {"id1", "id2"}

\* The input events of the interactive specification: a field and the text
\* the input element reports for it.
Edits ==
    {<<"float", T1p5>>, <<"float", T0p12>>, <<"name", TName>>, <<"pa", T1200>>,
     <<"liq", Empty>>, <<"pm", T0>>}

\* The forms calculate is applied to as a function on its own.
CalcForms ==
    [pm : {T500, T0, Empty}, pa : {T400, T1200}, fee : {T0, T50},
     float : {T0p12, T1, T1p5, Empty}, wp : {T0p7, T0, TNeg1},
     wf : {T0p3, T0, T2}, alpha : {T1, T2, TNeg1},
     cap : {T1, T0p1, TNeg1, Empty}, r : {T1, T2},
     liq : {T1, T0p5, Empty, T2, T0}, name : {Empty}]

(***************************************************************************)
(* The handlers of App                                                     *)
(***************************************************************************)
InitApp ==
    /\ formState = initialFormState
    /\ result = Null
    /\ history = <<>>
    /\ alerts = <<>>
    /\ lastAction = "init"
    /\ edits = 0

handleInputChange(name, value) ==
    /\ edits < MaxEdits
    /\ name \in FieldNames
    /\ formState' = [formState EXCEPT ![name] = value]
    /\ alerts' = <<>>
    /\ lastAction' = "input"
    /\ edits' = edits + 1
    /\ UNCHANGED <<result, history, interpVars, hookVars>>

\* handleCalculate without its test of the result.
handleCalculateAlways ==
    LET c == calculate(formState)
    IN  /\ result' = c.res
        /\ alerts' = c.alerts
        /\ lastAction' = "calculate"
        /\ UNCHANGED <<formState, history, edits, interpVars, hookVars>>

handleCalculate ==
    LET c == calculate(formState)
    IN  /\ result' = IF c.res # Null THEN c.res ELSE result
        /\ alerts' = c.alerts
        /\ lastAction' = "calculate"
        /\ UNCHANGED <<formState, history, edits, interpVars, hookVars>>

handleAddHistory ==
    LET c == calculate(formState)
    IN  /\ c.res = Null \/ Len(history) < MaxHistory
        /\ \E id \in Ids :
              history' = IF c.res # Null
                         THEN Prepend(NewItem(c.res, id, formState), history)
                         ELSE history
        /\ result' = IF c.res # Null THEN c.res ELSE result
        /\ alerts' = c.alerts
        /\ lastAction' = "addHistory"
        /\ UNCHANGED <<formState, edits, interpVars, hookVars>>

\* handleReset that keeps the history.
handleResetKeepHistory ==
    /\ formState' = initialFormState
    /\ result' = Null
    /\ alerts' = <<>>
    /\ lastAction' = "reset"
    /\ UNCHANGED <<history, edits, interpVars, hookVars>>

handleReset ==
    /\ formState' = initialFormState
    /\ result' = Null
    /\ history' = <<>>
    /\ alerts' = <<>>
    /\ lastAction' = "reset"
    /\ UNCHANGED <<edits, interpVars, hookVars>>

(***************************************************************************)
(* interpret as a function on its own                                      *)
(***************************************************************************)
\* Scores are drawn in hundredths from -MaxScore .. MaxScore, with the
\* three special numbers.
MaxScore == 60

Scores == {Fin(i, 100) : i \in -MaxScore..MaxScore} \cup {NaN, PosInf, NegInf}

InitInterp == score = Num(0) /\ label = "none"

ApplyInterpret ==
    /\ label' = interpret(score)
    /\ UNCHANGED <<score, appVars, hookVars>>

(***************************************************************************)
(* useLocalStorage, used by one component under one key.  A value of type  *)
(* T is a JSON value [t, n, s]: a number n (t = "num"), null (t = "null")  *)
(* or a string of characters s (t = "str").  store is the entry of         *)
(* localStorage under the key: <<>> when there is none, <<text>> else.     *)
(* phase is the last step of the hook: "off" before the first render,      *)
(* "rendered" after it, "set" after setStoredValue and the render it       *)
(* causes, "effect" after the effect ran.  envFail tells whether the       *)
(* storage call of that step threw; thrown whether an exception left the   *)
(* hook; logged counts the console.error calls of the step.                *)
(***************************************************************************)
JNum(i) == [t |-> "num", n |-> i, s |-> <<>>]

JNull == [t |-> "null", n |-> 0, s |-> <<>>]

JStr(cs) == [t |-> "str", n |-> 0, s |-> cs]

Quote == "\""

\* The decimal digits of a natural number.
RECURSIVE ToDigits(_)
ToDigits(i) ==
    IF i < 10 THEN <<Digits[i + 1]>>
    ELSE ToDigits(i \div 10) \o <<Digits[(i % 10) + 1]>>

JSONstringify(v) ==
    IF v.t = "num" THEN ToDigits(v.n)
    ELSE IF v.t = "null" THEN <<"n", "u", "l", "l">>
    ELSE <<Quote>> \o v.s \o <<Quote>>

\* JSON.parse on the texts of this model: [ok, v], ok = FALSE when it
\* throws a SyntaxError.
JSONparse(text) ==
    LET n == Len(text)
    IN  IF text = <<"n", "u", "l", "l">> THEN [ok |-> TRUE, v |-> JNull]
        ELSE IF /\ n >= 1
                /\ ScanDigits(text, 1) = n + 1
                /\ (n = 1 \/ text[1] # "0")
        THEN [ok |-> TRUE, v |-> JNum(DigitsVal(text, 1, n + 1))]
        ELSE IF /\ n >= 2
                /\ text[1] = Quote
                /\ text[n] = Quote
                /\ \A i \in 2..(n - 1) : text[i] \notin {Quote, "\\"}
        THEN [ok |-> TRUE, v |-> JStr(SubSeq(text, 2, n - 1))]
        ELSE [ok |-> FALSE, v |-> JNull]

\* The largest number a component stores.
MaxValue == 2

\* The values setStoredValue is called with.
Values == {JNum(i) : i \in 0..MaxValue} \cup {JNull, JStr(<<"a">>)}

\* The initialValue argument of the hook.
initialValue == JStr(<<"d">>)

\* What the key may hold when the component mounts.
StoredEntries ==
    {<<>>, <<Empty>>, <<T1>>, <<TNeg1>>, <<<<"n", "u", "l", "l">>>>,
     <<<<Quote, "a", Quote>>>>, <<<<Quote, "a">>>>, <<<<"{">>>>, <<<<"0", "1">>>>}

\* The initializer with JSON.parse outside the try block.
ReadInitialUnguarded(getThrows, entry) ==
    IF getThrows
    THEN [value |-> initialValue, logged |-> 1, thrown |-> FALSE]
    ELSE IF entry # <<>> /\ entry[1] # Empty
    THEN (IF JSONparse(entry[1]).ok
          THEN [value |-> JSONparse(entry[1]).v, logged |-> 0, thrown |-> FALSE]
          ELSE [value |-> JNull, logged |-> 0, thrown |-> TRUE])
    ELSE [value |-> initialValue, logged |-> 0, thrown |-> FALSE]

\* The lazy initializer of useState: getThrows tells whether getItem
\* throws, entry is the entry under the key.
ReadInitial(getThrows, entry) ==
    IF getThrows
    THEN [value |-> initialValue, logged |-> 1, thrown |-> FALSE]
    ELSE IF entry # <<>> /\ entry[1] # Empty
    THEN (IF JSONparse(entry[1]).ok
          THEN [value |-> JSONparse(entry[1]).v, logged |-> 0, thrown |-> FALSE]
          ELSE [value |-> initialValue, logged |-> 1, thrown |-> FALSE])
    ELSE [value |-> initialValue, logged |-> 0, thrown |-> FALSE]

\* The effect: setThrows tells whether setItem throws.
WriteEffect(setThrows, value, entry) ==
    IF setThrows
    THEN [entry |-> entry, logged |-> 1, thrown |-> FALSE]
    ELSE [entry |-> <<JSONstringify(value)>>, logged |-> 0, thrown |-> FALSE]

InitHook ==
    /\ phase = "off"
    /\ storedValue = initialValue
    /\ store = <<>>
    /\ effectPending = FALSE
    /\ envFail = FALSE
    /\ thrown = FALSE
    /\ logged = 0

\* The first render: the initializer runs and the effect is scheduled.
Mount ==
    /\ phase = "off"
    /\ \E getThrows \in BOOLEAN :
          LET r == ReadInitial(getThrows, store)
          IN  /\ storedValue' = r.value
              /\ logged' = r.logged
              /\ thrown' = r.thrown
              /\ envFail' = getThrows
    /\ phase' = "rendered"
    /\ effectPending' = TRUE
    /\ UNCHANGED <<store, appVars, interpVars>>

\* The effect of the last committed render.
RunEffect ==
    /\ phase # "off"
    /\ effectPending
    /\ ~thrown
    /\ \E setThrows \in BOOLEAN :
          LET w == WriteEffect(setThrows, storedValue, store)
          IN  /\ store' = w.entry
              /\ logged' = w.logged
              /\ thrown' = w.thrown
              /\ envFail' = setThrows
    /\ phase' = "effect"
    /\ effectPending' = FALSE
    /\ UNCHANGED <<storedValue, appVars, interpVars>>

\* setStoredValue(v) and the render it causes; the effect is scheduled
\* when the dependency [key, storedValue] changed.
SetValue(v) ==
    /\ phase # "off"
    /\ ~thrown
    /\ storedValue' = v
    /\ effectPending' = (effectPending \/ v # storedValue)
    /\ phase' = "set"
    /\ logged' = 0
    /\ envFail' = FALSE
    /\ UNCHANGED <<store, thrown, appVars, interpVars>>

Init == InitApp /\ InitInterp /\ InitHook

Next ==
    \/ \E e \in Edits : handleInputChange(e[1], e[2])
    \/ handleCalculate
    \/ handleAddHistory
    \/ handleReset

Spec == Init /\ [][Next]_vars

\* calculate alone, on every form of CalcForms.
InitCalc ==
    /\ formState \in CalcForms
    /\ result = Null
    /\ history = <<>>
    /\ alerts = <<>>
    /\ lastAction = "init"
    /\ edits = 0
    /\ InitInterp
    /\ InitHook

NextCalc == handleCalculate

SpecCalc == InitCalc /\ [][NextCalc]_vars

\* interpret alone, on every score of Scores.
InitScores == InitApp /\ InitHook /\ score \in Scores /\ label = "none"

NextInterp == ApplyInterpret

SpecInterp == InitScores /\ [][NextInterp]_vars

\* The hook alone, from every entry of StoredEntries.
InitStorage ==
    /\ InitApp
    /\ InitInterp
    /\ phase = "off"
    /\ storedValue = initialValue
    /\ store \in StoredEntries
    /\ effectPending = FALSE
    /\ envFail = FALSE
    /\ thrown = FALSE
    /\ logged = 0

NextStorage ==
    \/ Mount
    \/ RunEffect
    \/ \E v \in Values : SetValue(v)

SpecStorage == InitStorage /\ [][NextStorage]_vars

(***************************************************************************)
(* Properties of calculate, checked under SpecCalc after handleCalculate   *)
(* ran on the form of the state.                                           *)
(***************************************************************************)
Computed == lastAction = "calculate"

Zero == Num(0)

One == Num(1)

\* The numbers calculate reads from the form of the state.
InF == parseFloat(formState.float)

InPm == OrElse(parseFloat(formState.pm), Zero)

InWp == OrElse(parseFloat(formState.wp), Zero)

InWf == OrElse(parseFloat(formState.wf), Zero)

InCap == OrElse(parseFloat(formState.cap), One)

InR == OrElse(parseFloat(formState.r), One)

InL == parseFloat(formState.liq)

FloatBad == IsNaN(InF) \/ Lt(InF, Zero) \/ Gt(InF, One)

PmBad == Le(InPm, Zero)

WeightsBad == Le(Add(InWp, InWf), Zero)

\* C1: a call of calculate alerts at most one message; a float that is
\* unparseable or outside [0,1] gives the float message whatever the other
\* fields; otherwise an average cost <= 0 gives the average-cost message
\* whatever the weights; otherwise a weight sum <= 0 gives the weights
\* message; and in each of these cases no result is returned.
C1_ValidationOrder ==
    Computed =>
        /\ Len(alerts) <= 1
        /\ FloatBad => alerts = <<MsgFloat>> /\ result = Null
        /\ ~FloatBad /\ PmBad => alerts = <<MsgPm>> /\ result = Null
        /\ ~FloatBad /\ ~PmBad /\ WeightsBad =>
              alerts = <<MsgWeights>> /\ result = Null

\* All three preconditions are violated and the float message is the one shown.
C1_Witness ==
    /\ Computed
    /\ FloatBad
    /\ PmBad
    /\ WeightsBad
    /\ alerts = <<MsgFloat>>
    /\ result = Null

\* C5 as stated: in every result, -cap <= Dc <= cap for the cap used,
\* whatever its sign.
C5_Original ==
    Computed /\ result # Null =>
        Le(Neg(InCap), result.Dc) /\ Le(result.Dc, InCap)

\* C5: in every result computed with a cap > 0 from a discount D that is
\* not NaN, -cap <= Dc <= cap.
C5_ClampedWithinPositiveCap ==
    Computed /\ result # Null /\ Gt(InCap, Zero) /\ ~IsNaN(result.D) =>
        Le(Neg(InCap), result.Dc) /\ Le(result.Dc, InCap)

\* A discount below -cap was clamped to -cap, for a positive cap.
C5_Witness ==
    /\ Computed
    /\ result # Null
    /\ Gt(InCap, Zero)
    /\ Lt(result.D, Neg(InCap))
    /\ result.Dc = Neg(InCap)

C8_Factor ==
    IF ~IsFinite(InL) THEN One
    ELSE IF Lt(InL, Zero) THEN Zero
    ELSE IF Gt(InL, One) THEN One
    ELSE InL

\* C8: whatever the liquidity text, calculate fails exactly when one of the
\* three validations fails; and in every result the final score is
\* S x r x factor, where factor is 1 for an unparseable liquidity and the
\* liquidity clamped to [0,1] otherwise, so 0 <= factor <= 1, and the final
\* score is S x r for an unparseable liquidity.
C8_LiquidityNeverFails ==
    Computed =>
        /\ (alerts # <<>>) <=> (FloatBad \/ PmBad \/ WeightsBad)
        /\ (result = Null) <=> (FloatBad \/ PmBad \/ WeightsBad)
        /\ result # Null =>
              /\ result.Sfinal = Mul(Mul(result.S, InR), C8_Factor)
              /\ Le(Zero, C8_Factor) /\ Le(C8_Factor, One)
              /\ ~IsFinite(InL) => result.Sfinal = Mul(result.S, InR)

\* A result was computed from an unparseable liquidity and a non-zero S.
C8_Witness ==
    /\ Computed
    /\ formState.liq = Empty
    /\ result # Null
    /\ IsFinite(result.S)
    /\ result.S # Zero
    /\ result.Sfinal = Mul(result.S, InR)

(***************************************************************************)
(* Properties of interpret, checked under SpecInterp.                      *)
(***************************************************************************)
Labels == {"Compra forte", "Considerar", "Neutro", "Evitar"}

\* The four ranges of the claim, for the score of the state.
C7_Ranges ==
    /\ label \in Labels
    /\ label = "Compra forte" <=> Gt(score, Fin(40, 100))
    /\ label = "Considerar" <=> Gt(score, Fin(15, 100)) /\ Le(score, Fin(40, 100))
    /\ label = "Neutro" <=> Ge(score, Fin(-15, 100)) /\ Le(score, Fin(15, 100))
    /\ label = "Evitar" <=> Lt(score, Fin(-15, 100))

\* C7 as stated: every score gets the label of the one range it lies in.
C7_Original == label # "none" => C7_Ranges

\* C7: every score that is not NaN gets the label of the one range it lies
\* in (0.40 gives consider, 0.15 and -0.15 give neutral), and NaN, which
\* lies in none of them, gets the avoid label.
C7_InterpretPartition ==
    label # "none" =>
        /\ ~IsNaN(score) => C7_Ranges
        /\ IsNaN(score) => label = "Evitar"
        /\ score = Fin(40, 100) => label = "Considerar"
        /\ score = Fin(15, 100) => label = "Neutro"
        /\ score = Fin(-15, 100) => label = "Neutro"

\* The score 0.40 was labelled.
C7_Witness == score = Fin(40, 100) /\ label = "Considerar"

(***************************************************************************)
(* Properties of the handlers, checked under Spec.  Every handler sets     *)
(* lastAction, so lastAction' names the handler of a step.                 *)
(***************************************************************************)
\* What calculate returns on the form of the state.
Res == calculate(formState).res

\* C2: a step of handleReset leaves the history empty; any other step
\* either leaves the history as it was or, being a handleAddHistory whose
\* inputs pass validation, puts one new record before the others, which
\* keep their order and their fields.  (By induction the history is the
\* records committed since the last reset, newest first, as created.)
C2_HistoryAppendOnly ==
    [][/\ lastAction' = "reset" => history' = <<>>
       /\ lastAction' # "reset" =>
             \/ history' = history
             \/ /\ lastAction' = "addHistory"
                /\ Res # Null
                /\ Len(history') = Len(history) + 1
                /\ \A i \in 1..Len(history) : history'[i + 1] = history[i]
       /\ lastAction' = "addHistory" /\ Res # Null =>
             Len(history') = Len(history) + 1]_vars

\* Two commits were made, the second one under another name: it is first.
C2_Witness ==
    /\ Len(history) = 2
    /\ history[1].name = TName
    /\ history[2].name = Dash

\* C3: a step of handleAddHistory whose inputs pass validation grows the
\* history by one record put first, whose score fields are the result
\* computed from the form, whose name is the form's name, or the
\* placeholder when that is empty, and whose float string is the form's
\* float text; and the displayed result is that result.
C3_CommitPrependsRecord ==
    [][lastAction' = "addHistory" /\ Res # Null =>
          /\ Len(history') = Len(history) + 1
          /\ SubSeq(history', 2, Len(history')) = history
          /\ LET item == history'[1]
             IN  /\ item.Pm = Res.Pm
                 /\ item.PaAdj = Res.PaAdj
                 /\ item.D = Res.D
                 /\ item.Dc = Res.Dc
                 /\ item.Q = Res.Q
                 /\ item.S = Res.S
                 /\ item.Sfinal = Res.Sfinal
                 /\ item.name = (IF formState.name = Empty THEN Dash
                                                            ELSE formState.name)
                 /\ item.floatValue = formState.float
          /\ result' = Res]_vars

\* A commit was made from a form with an empty name, onto a history that
\* held a record already.
C3_Witness ==
    /\ lastAction = "addHistory"
    /\ alerts = <<>>
    /\ Len(history) = 2
    /\ formState.name = Empty
    /\ history[1].name = Dash
    /\ history[1].floatValue = formState.float
    /\ result # Null
    /\ history[1].Sfinal = result.Sfinal

\* C4: after handleReset every input has its initial default, no result
\* is displayed and the history is empty.
C4_ResetRestoresDefaults ==
    lastAction = "reset" =>
        /\ formState = initialFormState
        /\ \A n \in FieldNames : formState[n] = initialFormState[n]
        /\ result = Null
        /\ history = <<>>

\* handleReset ran after the form had been edited.
C4_Witness == lastAction = "reset" /\ edits >= 2

\* C10: a step of handleCalculate or handleAddHistory whose inputs fail
\* validation leaves the form, the displayed result and the history as
\* they were; a step of handleCalculate whose inputs pass leaves the form
\* and the history as they were and displays the computed result.
C10_FailedComputeChangesNothing ==
    [][/\ lastAction' \in {"calculate", "addHistory"} /\ Res = Null =>
             /\ formState' = formState
             /\ result' = result
             /\ history' = history
       /\ lastAction' = "calculate" /\ Res # Null =>
             /\ formState' = formState
             /\ history' = history
             /\ result' = Res]_vars

\* A compute failed while a result was displayed and the history held a
\* record: both are still there.
C10_Witness ==
    /\ lastAction = "calculate"
    /\ alerts # <<>>
    /\ result # Null
    /\ history # <<>>

(***************************************************************************)
(* Properties of useLocalStorage, checked under SpecStorage.               *)
(***************************************************************************)
\* The entry under the key cannot be decoded.
Undecodable == store # <<>> /\ store[1] # Empty /\ ~JSONparse(store[1]).ok

\* C9: no step lets an exception leave the hook; the first render gives
\* initialValue when getItem throws or the entry cannot be decoded; the
\* effect leaves the value in memory as it was set, leaves the entry as it
\* was when setItem throws, and otherwise makes the entry the JSON encoding
\* of the value in memory.
C9_StorageFailuresSwallowed ==
    [][/\ thrown' = FALSE
       /\ phase' = "rendered" /\ (envFail' \/ Undecodable) =>
             storedValue' = initialValue
       /\ phase' = "effect" =>
             /\ storedValue' = storedValue
             /\ envFail' => store' = store
             /\ ~envFail' =>
                   /\ store' = <<JSONstringify(storedValue')>>
                   /\ JSONparse(store'[1]) = [ok |-> TRUE, v |-> storedValue']]_vars

\* A value was set and the write that followed failed: the value in memory
\* is the one set and the entry is still the older one.
C9_Witness ==
    /\ phase = "effect"
    /\ envFail
    /\ ~thrown
    /\ storedValue = JNum(1)
    /\ store = <<JSONstringify(initialValue)>>

====
